---- MODULE Spec2Model ----
(***************************************************************************)
(* Model of todo-cli-tools (src/src/main.rs): the in-memory task store     *)
(* AppState, the reminder activity schedule_reminders with its recurrence  *)
(* continuation, and the command dispatch of main.                         *)
(*                                                                         *)
(* Time is counted in whole minutes.  A timed wait sleep(d) started at     *)
(* instant s ends exactly at s + d; code between two waits takes no time.  *)
(* Time also passes during the calendar push of main, and for a bounded    *)
(* moment between the return of main and the shutdown of its runtime.      *)
(***************************************************************************)
EXTENDS Integers, Sequences, FiniteSets, TLC

\* ------------------------------------------------------------------ bounds
MaxActs == 3          \* reminder activities of one process (chain length)
NumCallers == 2       \* concurrent callers of the store in SpecStore
MaxAdds == 3          \* add_task calls issued in SpecStore
MaxStart == 10        \* latest start_time given to Add, minutes after instant 0
MaxDur == 10          \* longest end_time - start_time given to Add
MaxFreq == 1          \* largest frequency_minutes given to Add
MaxNegFreq == 1       \* frequency_minutes down to -MaxNegFreq (the flag is an unchecked i64)
MaxPushDelay == 2     \* minutes the calendar push may take
MaxShutdownLag == 1   \* minutes between main's return and the drop of its spawned task
MaxTime == 24         \* the clock stops here
MaxEvents == 2        \* events returned by one calendar listing
MaxEventTime == 1     \* start and end instants of calendar events

\* --------------------------------------------------------- program constants
StartReminderMinutes == 5   \* chrono::Duration::minutes(5)
EndReminderMinutes == 2     \* chrono::Duration::minutes(2)
MaxResults == 10            \* max_results(10)

\* ------------------------------------------------------------------ state
VARIABLES
    tasks,          \* AppState.tasks: the map id -> Task
    next_id,        \* AppState.next_id
    tasks_lock,     \* holder of the tasks mutex, or NoThread
    next_id_lock,   \* holder of the next_id mutex, or NoThread
    pc,             \* position of every thread of control
    frame,          \* locals of the store call a thread is in
    hist,           \* ids returned by add_task, in order, and ids removed by remove_task
    now,            \* Utc::now(), in minutes
    act,            \* locals of every schedule_reminders activity
    notes,          \* notifications printed by every activity, with their instant
    main            \* locals of main

vars == <<tasks, next_id, tasks_lock, next_id_lock, pc, frame, hist, now, act, notes, main>>

storeVars == <<tasks, next_id, tasks_lock, next_id_lock>>
procVars == <<now, act, notes, main>>

NoThread == -1
MainThread == 0
Activities == 1..MaxActs
Callers == (MaxActs + 1)..(MaxActs + NumCallers)
Threads == {MainThread} \cup Activities \cup Callers

\* Option<i64>
NoneInt == [some |-> FALSE]
SomeInt(n) == [some |-> TRUE, val |-> n]

\* struct Task
Task(id, title, details, start_time, end_time, is_recurring, frequency_minutes) ==
    [id |-> id, title |-> title, details |-> details,
     start_time |-> start_time, end_time |-> end_time,
     is_recurring |-> is_recurring, frequency_minutes |-> frequency_minutes]

NoTask == Task(0, "", "", 0, 0, FALSE, NoneInt)

\* Option<Task>
NoneTask == [some |-> FALSE]
SomeTask(t) == [some |-> TRUE, val |-> t]

\* AppState::default(): an empty map
EmptyMap == [k \in {} |-> NoTask]

\* no call in progress: no argument and no result yet
NoFrame == [op |-> "none", task |-> NoneTask, id |-> 0, ret_id |-> 0,
            ret_task |-> NoneTask, ret_list |-> {}, cont |-> "idle"]

\* ------------------------------------------------------------ AppState
\* *next_id += 1 on a u32.  The counter starts at 0 and gains one per insertion;
\* its overflow after 2^32 insertions lies outside every bound used here.
NextIdAfter_NoIncrement(n) == n

NextIdAfter(n) == n + 1

\* HashMap::insert
MapInsert(m, k, v) == [x \in (DOMAIN m) \cup {k} |-> IF x = k THEN v ELSE m[x]]

\* HashMap::remove: the map afterwards
MapRemove_Clear(m, k) == IF k \in DOMAIN m THEN EmptyMap ELSE m

MapRemove(m, k) == [x \in (DOMAIN m) \ {k} |-> m[x]]

\* HashMap::remove: the value returned
MapTake(m, k) == IF k \in DOMAIN m THEN SomeTask(m[k]) ELSE NoneTask

\* HashMap::values().cloned().collect(): order unspecified, kept as key/value pairs
MapValues(m) == {<<k, m[k]>> : k \in DOMAIN m}

InAddTask(t) == pc[t] \in {"add_lock_tasks", "add_lock_next_id", "add_body"}

\* entering a store operation from position-independent callers
CallAdd(t, task, cont) ==
    /\ pc' = [pc EXCEPT ![t] = "add_lock_tasks"]
    /\ frame' = [frame EXCEPT ![t] = [NoFrame EXCEPT !.op = "add", !.task = SomeTask(task), !.cont = cont]]

CallRemove(t, id, cont) ==
    /\ pc' = [pc EXCEPT ![t] = "remove_lock_tasks"]
    /\ frame' = [frame EXCEPT ![t] = [NoFrame EXCEPT !.op = "remove", !.id = id, !.cont = cont]]

CallList(t, cont) ==
    /\ pc' = [pc EXCEPT ![t] = "list_lock_tasks"]
    /\ frame' = [frame EXCEPT ![t] = [NoFrame EXCEPT !.op = "list", !.cont = cont]]

\* add_task: let mut tasks = self.tasks.lock().await
AddLockTasks(t) ==
    /\ pc[t] = "add_lock_tasks"
    /\ tasks_lock = NoThread
    /\ tasks_lock' = t
    /\ pc' = [pc EXCEPT ![t] = "add_lock_next_id"]
    /\ UNCHANGED <<tasks, next_id, next_id_lock, frame, hist>>
    /\ UNCHANGED procVars

\* add_task: let mut next_id = self.next_id.lock().await
AddLockNextId(t) ==
    /\ pc[t] = "add_lock_next_id"
    /\ next_id_lock = NoThread
    /\ next_id_lock' = t
    /\ pc' = [pc EXCEPT ![t] = "add_body"]
    /\ UNCHANGED <<tasks, next_id, tasks_lock, frame, hist>>
    /\ UNCHANGED procVars

\* add_task: read and bump the counter, insert, return (both guards dropped)
AddBody(t) ==
    /\ pc[t] = "add_body"
    /\ tasks_lock = t /\ next_id_lock = t
    /\ LET task_id == next_id IN
        /\ next_id' = NextIdAfter(next_id)
        /\ tasks' = MapInsert(tasks, task_id, frame[t].task.val)
        /\ frame' = [frame EXCEPT ![t].ret_id = task_id]
        /\ hist' = [hist EXCEPT !.returned = Append(@, task_id)]
    /\ tasks_lock' = NoThread /\ next_id_lock' = NoThread
    /\ pc' = [pc EXCEPT ![t] = frame[t].cont]
    /\ UNCHANGED procVars

\* remove_task: let mut tasks = self.tasks.lock().await
RemoveLockTasks(t) ==
    /\ pc[t] = "remove_lock_tasks"
    /\ tasks_lock = NoThread
    /\ tasks_lock' = t
    /\ pc' = [pc EXCEPT ![t] = "remove_body"]
    /\ UNCHANGED <<tasks, next_id, next_id_lock, frame, hist>>
    /\ UNCHANGED procVars

\* remove_task: tasks.remove(&task_id), return (guard dropped)
RemoveBody_GuardKept(t) ==
    /\ pc[t] = "remove_body"
    /\ tasks_lock = t
    /\ tasks' = MapRemove(tasks, frame[t].id)
    /\ frame' = [frame EXCEPT ![t].ret_task = MapTake(tasks, frame[t].id)]
    /\ hist' = [hist EXCEPT !.removed = @ \cup ((DOMAIN tasks) \ (DOMAIN tasks'))]
    /\ pc' = [pc EXCEPT ![t] = frame[t].cont]
    /\ UNCHANGED <<next_id, tasks_lock, next_id_lock>>
    /\ UNCHANGED procVars

RemoveBody(t) ==
    /\ pc[t] = "remove_body"
    /\ tasks_lock = t
    /\ tasks' = MapRemove(tasks, frame[t].id)
    /\ frame' = [frame EXCEPT ![t].ret_task = MapTake(tasks, frame[t].id)]
    /\ hist' = [hist EXCEPT !.removed = @ \cup ((DOMAIN tasks) \ (DOMAIN tasks'))]
    /\ tasks_lock' = NoThread
    /\ pc' = [pc EXCEPT ![t] = frame[t].cont]
    /\ UNCHANGED <<next_id, next_id_lock>>
    /\ UNCHANGED procVars

\* list_tasks: let tasks = self.tasks.lock().await
ListLockTasks(t) ==
    /\ pc[t] = "list_lock_tasks"
    /\ tasks_lock = NoThread
    /\ tasks_lock' = t
    /\ pc' = [pc EXCEPT ![t] = "list_body"]
    /\ UNCHANGED <<tasks, next_id, next_id_lock, frame, hist>>
    /\ UNCHANGED procVars

\* list_tasks: snapshot of the values, return (guard dropped)
ListBody(t) ==
    /\ pc[t] = "list_body"
    /\ tasks_lock = t
    /\ frame' = [frame EXCEPT ![t].ret_list = MapValues(tasks)]
    /\ UNCHANGED hist
    /\ tasks_lock' = NoThread
    /\ pc' = [pc EXCEPT ![t] = frame[t].cont]
    /\ UNCHANGED <<tasks, next_id, next_id_lock>>
    /\ UNCHANGED procVars

\* one step of a store operation in progress
StoreStep(t) ==
    \/ AddLockTasks(t)
    \/ AddLockNextId(t)
    \/ AddBody(t)
    \/ RemoveLockTasks(t)
    \/ RemoveBody(t)
    \/ ListLockTasks(t)
    \/ ListBody(t)

\* AppState::default() and no call in progress
StoreInit ==
    /\ tasks = EmptyMap
    /\ next_id = 0
    /\ tasks_lock = NoThread
    /\ next_id_lock = NoThread
    /\ frame = [t \in Threads |-> NoFrame]
    /\ hist = [returned |-> <<>>, removed |-> {}]

NoAct == [task |-> NoTask, key |-> 0, parent |-> 0, now0 |-> 0, wake |-> 0,
          next_task |-> NoneTask, ctx |-> "none"]

NoMain == [cmd |-> "none", task |-> NoTask, id |-> 0, valid_now |-> 0, rejected |-> "no",
           printed_id |-> 0, push |-> "none", push_delay |-> 0, lag |-> 0, events |-> <<>>, idx |-> 0,
           outcome |-> "none"]

\* ------------------------------------------- callers of the store (SpecStore)
\* Any number of activities holding the Arc<AppState> may call its three
\* operations at any moment; a caller is back at "idle" once it has used the result.
\* add_task calls, returned or in progress
AddsIssued == Len(hist.returned) + Cardinality({t \in Callers : InAddTask(t)})

\* every caller adds a task of its own
CallerTask(t) == Task(0, "a", "d", t, t + 1, FALSE, NoneInt)

CallerAdd(t) ==
    /\ pc[t] = "idle"
    /\ AddsIssued < MaxAdds
    /\ CallAdd(t, CallerTask(t), "caller_done")
    /\ UNCHANGED <<storeVars, hist, procVars>>

CallerRemove(t) ==
    /\ pc[t] = "idle"
    /\ \E id \in 0..next_id : CallRemove(t, id, "caller_done")
    /\ UNCHANGED <<storeVars, hist, procVars>>

CallerList(t) ==
    /\ pc[t] = "idle"
    /\ CallList(t, "caller_done")
    /\ UNCHANGED <<storeVars, hist, procVars>>

\* the caller has used the result of its call
CallerDone(t) ==
    /\ pc[t] = "caller_done"
    /\ pc' = [pc EXCEPT ![t] = "idle"]
    /\ frame' = [frame EXCEPT ![t] = NoFrame]
    /\ UNCHANGED <<storeVars, hist, procVars>>

InitStore ==
    /\ StoreInit
    /\ pc = [t \in Threads |-> "idle"]
    /\ now = 0
    /\ act = [k \in Activities |-> NoAct]
    /\ notes = [k \in Activities |-> <<>>]
    /\ main = NoMain

\* A caller takes the value returned to it before any other caller moves on:
\* taking it touches nothing shared.
NoPendingResult == \A u \in Callers : pc[u] # "caller_done"

NextStore ==
    \E t \in Callers :
        \/ CallerDone(t)
        \/ NoPendingResult /\ CallerAdd(t)
        \/ NoPendingResult /\ CallerRemove(t)
        \/ NoPendingResult /\ CallerList(t)
        \/ NoPendingResult /\ StoreStep(t)

SpecStore == InitStore /\ [][NextStore]_vars

\* ------------------------------- callers under fair scheduling (FairSpecStore)
\* The same callers, all adding one and the same task: whether a call returns
\* does not depend on what is stored.
CallerAddSame(t) ==
    /\ pc[t] = "idle"
    /\ AddsIssued < MaxAdds
    /\ CallAdd(t, CallerTask(MaxActs + 1), "caller_done")
    /\ UNCHANGED <<storeVars, hist, procVars>>

NextStoreFair ==
    \E t \in Callers :
        \/ CallerDone(t)
        \/ NoPendingResult /\ CallerAddSame(t)
        \/ NoPendingResult /\ CallerRemove(t)
        \/ NoPendingResult /\ CallerList(t)
        \/ NoPendingResult /\ StoreStep(t)

\* tokio's Mutex hands a lock to its waiters in the order they asked for it,
\* so a caller that finds the lock free again and again gets it (strong
\* fairness); a caller that has its result takes it.
FairSpecStore ==
    /\ InitStore
    /\ [][NextStoreFair]_vars
    /\ \A t \in Callers : SF_vars(NoPendingResult /\ StoreStep(t))
    /\ \A t \in Callers : WF_vars(CallerDone(t))

\* ------------------------------------------------- schedule_reminders
\* task.start_time - chrono::Duration::minutes(5)
ReminderTimeStart(task) == task.start_time - StartReminderMinutes

\* task.end_time - chrono::Duration::minutes(2)
ReminderTimeEnd(task) == task.end_time - EndReminderMinutes

\* chrono::Duration::to_std: Ok exactly for a duration that is not negative
ToStdOk(d) == d >= 0

\* whether the wait for the first reminder is taken, with `now` as read on entry
WaitsForStart_PastIncluded(task, now0) == TRUE

WaitsForStart(task, now0) ==
    /\ ReminderTimeStart(task) > now0
    /\ ToStdOk(ReminderTimeStart(task) - now0)

\* whether the wait for the second reminder is taken: the test uses the `now`
\* read on entry, not the instant the test is made at
WaitsForEnd(task, now0, at) ==
    /\ ReminderTimeEnd(task) > now0
    /\ ToStdOk(ReminderTimeEnd(task) - now0)

\* the duration slept before the second reminder, from the same `now`
EndWaitDuration(task, now0, at) == ReminderTimeEnd(task) - now0

\* the recurrence branch is entered
Recurs_IgnoreFlag(task) == task.frequency_minutes.some

Recurs_OnlyWhileStored(task) ==
    /\ task.is_recurring /\ task.frequency_minutes.some
    /\ \E key \in DOMAIN tasks : tasks[key] = task

Recurs(task) == task.is_recurring /\ task.frequency_minutes.some

\* the successor built from a completed recurring task
NextTask_EndNotShifted(task) ==
    Task(0, task.title, task.details,
         task.start_time + task.frequency_minutes.val,
         task.end_time,
         TRUE, SomeInt(task.frequency_minutes.val))

NextTask(task) ==
    Task(0, task.title, task.details,
         task.start_time + task.frequency_minutes.val,
         task.end_time + task.frequency_minutes.val,
         TRUE, SomeInt(task.frequency_minutes.val))

Note(kind, at) == [kind |-> kind, at |-> at]

Sleeping == {"sleep_start", "sleep_end", "sleep_next"}

\* entry: the reminder instants, `now`, and the first test
ActStart(k) ==
    /\ pc[k] = "spawned"
    /\ IF WaitsForStart(act[k].task, now)
       THEN /\ pc' = [pc EXCEPT ![k] = "sleep_start"]
            /\ act' = [act EXCEPT ![k].now0 = now,
                                  ![k].wake = now + (ReminderTimeStart(act[k].task) - now)]
       ELSE /\ pc' = [pc EXCEPT ![k] = "check_end"]
            /\ act' = [act EXCEPT ![k].now0 = now]
    /\ UNCHANGED <<storeVars, frame, hist, now, notes, main>>

\* the first wait is over: "starts in 5 minutes"
ActWakeStart(k) ==
    /\ pc[k] = "sleep_start"
    /\ now >= act[k].wake
    /\ notes' = [notes EXCEPT ![k] = Append(@, Note("starts_in_5", now))]
    /\ pc' = [pc EXCEPT ![k] = "check_end"]
    /\ UNCHANGED <<storeVars, frame, hist, now, act, main>>

\* the second test
ActCheckEnd(k) ==
    /\ pc[k] = "check_end"
    /\ IF WaitsForEnd(act[k].task, act[k].now0, now)
       THEN /\ pc' = [pc EXCEPT ![k] = "sleep_end"]
            /\ act' = [act EXCEPT ![k].wake = now + EndWaitDuration(act[k].task, act[k].now0, now)]
       ELSE /\ pc' = [pc EXCEPT ![k] = "complete"]
            /\ UNCHANGED act
    /\ UNCHANGED <<storeVars, frame, hist, now, notes, main>>

\* the second wait is over: "ends in 2 minutes"
ActWakeEnd(k) ==
    /\ pc[k] = "sleep_end"
    /\ now >= act[k].wake
    /\ notes' = [notes EXCEPT ![k] = Append(@, Note("ends_in_2", now))]
    /\ pc' = [pc EXCEPT ![k] = "complete"]
    /\ UNCHANGED <<storeVars, frame, hist, now, act, main>>

\* "is complete", then the successor is built if the task recurs
ActComplete_SilentWithoutReminder(k) ==
    /\ pc[k] = "complete"
    /\ notes' = IF notes[k] = <<>> THEN notes
               ELSE [notes EXCEPT ![k] = Append(@, Note("complete", now))]
    /\ IF Recurs(act[k].task)
       THEN /\ act' = [act EXCEPT ![k].next_task = SomeTask(NextTask(act[k].task))]
            /\ pc' = [pc EXCEPT ![k] = "recur"]
       ELSE /\ UNCHANGED act
            /\ pc' = [pc EXCEPT ![k] = "finished"]
    /\ UNCHANGED <<storeVars, frame, hist, now, main>>

ActComplete(k) ==
    /\ pc[k] = "complete"
    /\ notes' = [notes EXCEPT ![k] = Append(@, Note("complete", now))]
    /\ IF Recurs(act[k].task)
       THEN /\ act' = [act EXCEPT ![k].next_task = SomeTask(NextTask(act[k].task))]
            /\ pc' = [pc EXCEPT ![k] = "recur"]
       ELSE /\ UNCHANGED act
            /\ pc' = [pc EXCEPT ![k] = "finished"]
    /\ UNCHANGED <<storeVars, frame, hist, now, main>>

\* the delay until the successor's start: slept when to_std accepts it,
\* skipped when it is negative; then add_task
ActRecur_NoWait(k) ==
    /\ pc[k] = "recur"
    /\ k < MaxActs
    /\ CallAdd(k, act[k].next_task.val, "spawn_next")
    /\ UNCHANGED act
    /\ UNCHANGED <<storeVars, hist, now, notes, main>>

ActRecur_LockBeforeSleep(k) ==
    /\ pc[k] = "recur"
    /\ k < MaxActs
    /\ tasks_lock = NoThread
    /\ tasks_lock' = k
    /\ pc' = [pc EXCEPT ![k] = "sleep_next"]
    /\ act' = [act EXCEPT ![k].wake =
                    IF ToStdOk(act[k].next_task.val.start_time - now)
                    THEN now + (act[k].next_task.val.start_time - now) ELSE now]
    /\ UNCHANGED <<tasks, next_id, next_id_lock, frame, hist, now, notes, main>>

ActRecur(k) ==
    /\ pc[k] = "recur"
    /\ k < MaxActs
    /\ IF ToStdOk(act[k].next_task.val.start_time - now)
       THEN /\ pc' = [pc EXCEPT ![k] = "sleep_next"]
            /\ act' = [act EXCEPT ![k].wake = now + (act[k].next_task.val.start_time - now)]
            /\ UNCHANGED frame
       ELSE /\ CallAdd(k, act[k].next_task.val, "spawn_next")
            /\ UNCHANGED act
    /\ UNCHANGED <<storeVars, hist, now, notes, main>>

\* the wait for the successor's start is over: add_task
ActWakeNext(k) ==
    /\ pc[k] = "sleep_next"
    /\ now >= act[k].wake
    /\ CallAdd(k, act[k].next_task.val, "spawn_next")
    /\ UNCHANGED <<storeVars, hist, now, act, notes, main>>

\* "Next recurring task scheduled with ID", then spawn_blocking of a thread
\* whose own runtime runs schedule_reminders(next_task); this activity returns
ActSpawnNext(k) ==
    /\ pc[k] = "spawn_next"
    /\ k + 1 \in Activities
    /\ notes' = [notes EXCEPT ![k] = Append(@, Note("next_scheduled", now))]
    /\ act' = [act EXCEPT ![k + 1] = [NoAct EXCEPT !.task = act[k].next_task.val,
                                                   !.key = frame[k].ret_id,
                                                   !.parent = k,
                                                   !.ctx = "live"]]
    /\ pc' = [pc EXCEPT ![k] = "finished", ![k + 1] = "spawned"]
    /\ UNCHANGED <<storeVars, frame, hist, now, main>>

\* ------------------------------------------- execution contexts
\* The activity of Add is a task of main's runtime.  Every successor runs in a
\* context of its own: a thread of the blocking pool (spawn_blocking) and the
\* Runtime that its closure creates, blocks on, and drops last.
OwnsRuntime(k) == k > 1

\* the activities launched by activity k: their closures run on the blocking
\* pool of the runtime activity k runs on
Successors(k) == {j \in Activities : pc[j] # "idle" /\ act[j].parent = k}

\* The task of Add is over when schedule_reminders returns.  A closure is over
\* when the drop of its Runtime returns, and that drop blocks until every
\* blocking closure spawned on the Runtime has returned.
CtxCanExit(k) ==
    /\ pc[k] = "finished"
    /\ act[k].ctx = "live"
    /\ OwnsRuntime(k) => \A j \in Successors(k) : act[j].ctx = "gone"

\* the context of activity k is gone
CtxExit(k) ==
    /\ CtxCanExit(k)
    /\ act' = [act EXCEPT ![k].ctx = "gone"]
    /\ UNCHANGED <<storeVars, pc, frame, hist, now, notes, main>>

\* the contexts that exist
LiveContexts == {k \in Activities : act[k].ctx = "live"}

ActStep(k) ==
    \/ ActStart(k)
    \/ ActWakeStart(k)
    \/ ActCheckEnd(k)
    \/ ActWakeEnd(k)
    \/ ActComplete(k)
    \/ ActRecur(k)
    \/ ActWakeNext(k)
    \/ ActSpawnNext(k)
    \/ CtxExit(k)
    \/ AddLockTasks(k)
    \/ AddLockNextId(k)
    \/ AddBody(k)

\* ------------------------------------------------------------------ clock
\* an activity that has nothing to do before the clock moves
ActWaits(k) ==
    \/ pc[k] \in {"idle", "cancelled"}
    \/ pc[k] = "finished" /\ ~CtxCanExit(k)
    \/ pc[k] \in Sleeping /\ now < act[k].wake
    \/ pc[k] = "recur" /\ k = MaxActs

\* The runtime of main is shut down once main has returned.  The task spawned
\* on it is dropped where it is suspended, or before it was ever polled; the
\* closure that this task handed to spawn_blocking, which went to the blocking
\* pool of the same runtime, is dropped when it has not started yet.  A closure
\* that has started runs on.
Cancellable(k) ==
    \/ k = 1 /\ pc[k] \in Sleeping \cup {"spawned"}
    \/ k > 1 /\ act[k].parent = 1 /\ pc[k] = "spawned"

SomeCancellable == \E k \in Activities : Cancellable(k)

\* the drop follows main's return closely: a wait of the spawned task can
\* only end before it when it ends within MaxShutdownLag
MainWaits ==
    \/ pc[MainThread] \in {"hold", "panicked"}
    \/ pc[MainThread] = "returned" /\ (~SomeCancellable \/ main.lag < MaxShutdownLag)
    \/ pc[MainThread] = "m_push" /\ main.push_delay < MaxPushDelay

\* one minute passes: only when every thread is waiting, and some thread waits for time
Tick ==
    /\ now < MaxTime
    /\ \A k \in Activities : ActWaits(k)
    /\ MainWaits
    /\ \/ \E k \in Activities : pc[k] \in Sleeping
       \/ pc[MainThread] = "m_push"
    /\ now' = now + 1
    /\ main' = IF pc[MainThread] = "m_push"
               THEN [main EXCEPT !.push_delay = @ + 1]
               ELSE IF pc[MainThread] = "returned" /\ SomeCancellable
               THEN [main EXCEPT !.lag = @ + 1]
               ELSE main
    /\ UNCHANGED <<storeVars, pc, frame, hist, act, notes>>

\* --------------------------------------------------- inputs of the Add command
Frequencies == {NoneInt} \cup {SomeInt(f) : f \in (0 - MaxNegFreq)..MaxFreq}

\* the tasks that pass the validation of Add made at instant 0: start_time
\* after that instant, end_time after start_time
AcceptedTasks ==
    UNION {{Task(0, "a", "d", s, e, r, f) : e \in (s + 1)..(s + MaxDur),
                                            r \in BOOLEAN, f \in Frequencies} :
           s \in 1..MaxStart}

\* ----------------------------------- the reminder activity alone (SpecSched)
\* schedule_reminders(task, state) for a task the Add command accepted at
\* instant 0 and stored, launched up to MaxPushDelay minutes later on a runtime
\* that its caller keeps alive.
InitSched ==
    /\ now \in 0..MaxPushDelay
    /\ \E task \in AcceptedTasks :
        /\ tasks = MapInsert(EmptyMap, 0, task)
        /\ act = [k \in Activities |-> IF k = 1 THEN [NoAct EXCEPT !.task = task, !.ctx = "live"]
                                                ELSE NoAct]
    /\ next_id = 1
    /\ tasks_lock = NoThread
    /\ next_id_lock = NoThread
    /\ frame = [t \in Threads |-> NoFrame]
    /\ hist = [returned |-> <<0>>, removed |-> {}]
    /\ pc = [t \in Threads |-> IF t = MainThread THEN "hold" ELSE IF t = 1 THEN "spawned" ELSE "idle"]
    /\ notes = [k \in Activities |-> <<>>]
    /\ main = NoMain

NextSched ==
    \/ \E k \in Activities : ActStep(k)
    \/ Tick

SpecSched == InitSched /\ [][NextSched]_vars

\* ------------------- the reminder activity beside a remover (SpecSchedRemove)
\* Another holder of the Arc<AppState> calls remove_task on the key of a task
\* whose activity is under way, once, at any moment of the run.
InFlight(k) == pc[k] \notin {"idle", "finished", "cancelled"}

Remover == MaxActs + 1

RemoverCall ==
    /\ pc[Remover] = "idle"
    /\ \E k \in Activities :
        /\ InFlight(k)
        /\ frame[Remover].op = "none"
        /\ CallRemove(Remover, act[k].key, "idle")
    /\ UNCHANGED <<storeVars, hist, procVars>>

NextSchedRemove ==
    \/ NextSched
    \/ RemoverCall
    \/ RemoveLockTasks(Remover)
    \/ RemoveBody(Remover)

SpecSchedRemove == InitSched /\ [][NextSchedRemove]_vars

\* ------------------------------------------------------------------ main
\* arguments of the Add command, already parsed; instant 0 is when main starts
StartTimes == (0 - 1)..MaxStart

EndTimes(start_time) == (start_time - 1)..(start_time + MaxDur)

\* the validation of Add: the reason it rejects for, or "no"
Rejects_StartNowAllowed(start_time, end_time, at) ==
    IF start_time < at THEN "start"
    ELSE IF end_time <= start_time THEN "end"
    ELSE "no"

Rejects(start_time, end_time, at) ==
    IF start_time <= at THEN "start"
    ELSE IF end_time <= start_time THEN "end"
    ELSE "no"

\* How add_to_google_calendar can end.  Its first line awaits authenticate(),
\* which creates a Runtime as a local (line 162) and so drops it on every way
\* out, inside the async context of main's runtime: tokio panics there
\* ("Cannot drop a runtime in a context where blocking is not allowed"), also
\* when expect (line 176) panicked first.  The insert, and the unwrap() of the
\* frequency (line 205), are never reached.
PushOutcomes(task) == {"panic"}

\* Commands::Add: parse, validate, build the task, add_task
MainAdd ==
    /\ pc[MainThread] = "m_start"
    /\ \E start_time \in StartTimes : \E end_time \in EndTimes(start_time) :
       \E recurring \in BOOLEAN : \E frequency_minutes \in Frequencies :
        LET task == Task(0, "a", "d", start_time, end_time, recurring, frequency_minutes)
            why == Rejects(start_time, end_time, now) IN
        /\ main' = [main EXCEPT !.cmd = "add", !.task = task, !.valid_now = now,
                                !.rejected = why]
        /\ IF why # "no"
           THEN /\ pc' = [pc EXCEPT ![MainThread] = "returned"]
                /\ UNCHANGED frame
           ELSE CallAdd(MainThread, task, "m_added")
    /\ UNCHANGED <<storeVars, hist, now, act, notes>>

\* "Task '{}' added with ID: {}" printing task.id of the local task
MainAdded ==
    /\ pc[MainThread] = "m_added"
    /\ main' = [main EXCEPT !.printed_id = main.task.id]
    /\ pc' = [pc EXCEPT ![MainThread] = "m_push"]
    /\ UNCHANGED <<storeVars, frame, hist, now, act, notes>>

\* add_to_google_calendar(&task).await has ended
MainPush ==
    /\ pc[MainThread] = "m_push"
    /\ \E outcome \in PushOutcomes(main.task) :
        /\ main' = [main EXCEPT !.push = outcome]
        /\ pc' = [pc EXCEPT ![MainThread] = IF outcome = "panic" THEN "panicked" ELSE "m_spawn"]
    /\ UNCHANGED <<storeVars, frame, hist, now, act, notes>>

\* tokio::spawn of schedule_reminders(task, state); main returns at once
MainSpawn ==
    /\ pc[MainThread] = "m_spawn"
    /\ act' = [act EXCEPT ![1] = [NoAct EXCEPT !.task = main.task,
                                               !.key = frame[MainThread].ret_id,
                                               !.ctx = "live"]]
    /\ pc' = [pc EXCEPT ![MainThread] = "returned", ![1] = "spawned"]
    /\ UNCHANGED <<storeVars, frame, hist, now, notes, main>>

\* Commands::List: list_tasks
MainList ==
    /\ pc[MainThread] = "m_start"
    /\ main' = [main EXCEPT !.cmd = "list"]
    /\ CallList(MainThread, "m_listed")
    /\ UNCHANGED <<storeVars, hist, now, act, notes>>

\* the listing is printed
MainListed ==
    /\ pc[MainThread] = "m_listed"
    /\ main' = [main EXCEPT !.outcome = "listed"]
    /\ pc' = [pc EXCEPT ![MainThread] = "returned"]
    /\ UNCHANGED <<storeVars, frame, hist, now, act, notes>>

\* Commands::Remove: remove_task(id)
MainRemove ==
    /\ pc[MainThread] = "m_start"
    /\ \E id \in 0..1 :
        /\ main' = [main EXCEPT !.cmd = "remove", !.id = id]
        /\ CallRemove(MainThread, id, "m_removed")
    /\ UNCHANGED <<storeVars, hist, now, act, notes>>

\* "Removed task" or "Task with ID {} not found."
MainRemoved ==
    /\ pc[MainThread] = "m_removed"
    /\ main' = [main EXCEPT !.outcome = IF frame[MainThread].ret_task.some
                                        THEN "removed" ELSE "not_found"]
    /\ pc' = [pc EXCEPT ![MainThread] = "returned"]
    /\ UNCHANGED <<storeVars, frame, hist, now, act, notes>>

\* an event of the calendar: whether summary, start.date_time and end.date_time
\* are all present, whether its times parse, and the times
Event(complete, parses, start_time, end_time) ==
    [complete |-> complete, parses |-> parses, start_time |-> start_time, end_time |-> end_time]

Events ==
    {Event(FALSE, TRUE, 0, 0), Event(TRUE, FALSE, 0, 0)}
    \cup {Event(TRUE, TRUE, s, e) : s \in 0..MaxEventTime, e \in 0..MaxEventTime}

EventLists == UNION {[1..n -> Events] : n \in 0..MaxEvents}

\* Commands::Sync: authenticate().await.unwrap() panics like the push does
\* (the Runtime local to authenticate() is dropped in async context);
\* sync_from_google_calendar is not called
MainSync ==
    /\ pc[MainThread] = "m_start"
    /\ main' = [main EXCEPT !.cmd = "sync", !.outcome = "panicked"]
    /\ pc' = [pc EXCEPT ![MainThread] = "panicked"]
    /\ UNCHANGED <<storeVars, frame, hist, now, act, notes>>

\* sync_from_google_calendar: one turn of the loop over the events
MainSyncLoop ==
    /\ pc[MainThread] = "m_sync_loop"
    /\ IF main.idx > Len(main.events)
       THEN /\ main' = [main EXCEPT !.outcome = "synchronized"]
            /\ pc' = [pc EXCEPT ![MainThread] = "returned"]
            /\ UNCHANGED frame
       ELSE LET event == main.events[main.idx] IN
            IF ~event.complete
            THEN /\ main' = [main EXCEPT !.idx = @ + 1]
                 /\ UNCHANGED <<pc, frame>>
            ELSE IF ~event.parses
            THEN /\ main' = [main EXCEPT !.outcome = "sync_failed"]
                 /\ pc' = [pc EXCEPT ![MainThread] = "returned"]
                 /\ UNCHANGED frame
            ELSE /\ main' = [main EXCEPT !.idx = @ + 1]
                 /\ CallAdd(MainThread,
                            Task(0, "a", "", event.start_time, event.end_time, FALSE, NoneInt),
                            "m_sync_loop")
    /\ UNCHANGED <<storeVars, hist, now, act, notes>>

\* the runtime of main shuts down after main returned: the activity spawned on
\* it is dropped at its suspension point, a closure of its blocking pool that
\* has not started is dropped unrun
Cancel(k) ==
    /\ pc[MainThread] = "returned"
    /\ Cancellable(k)
    /\ pc' = [pc EXCEPT ![k] = "cancelled"]
    /\ act' = [act EXCEPT ![k].ctx = "gone"]
    /\ UNCHANGED <<storeVars, frame, hist, now, notes, main>>

\* The steps a run of main takes.  It never gets to tokio::spawn (line 302) nor
\* into sync_from_google_calendar (line 332): the call before each panics.
MainStep ==
    \/ MainAdd
    \/ MainAdded
    \/ MainPush
    \/ MainList
    \/ MainListed
    \/ MainRemove
    \/ MainRemoved
    \/ MainSync
    \/ StoreStep(MainThread)

\* ----------------------------------------------------- the program (Spec)
\* one run of the process: main with one command on a fresh AppState
Init ==
    /\ StoreInit
    /\ pc = [t \in Threads |-> IF t = MainThread THEN "m_start" ELSE "idle"]
    /\ now = 0
    /\ act = [k \in Activities |-> NoAct]
    /\ notes = [k \in Activities |-> <<>>]
    /\ main = NoMain

Next ==
    \/ MainStep
    \/ Tick

Spec == Init /\ [][Next]_vars

\* ------------------------- main from tokio::spawn on (SpecSpawn)
\* Lines 302-305 and the shutdown of main's runtime, for an Add whose task was
\* accepted at instant 0 and stored, with a calendar push that was made to
\* return, Ok or Err, up to MaxPushDelay minutes later.
InitSpawn ==
    /\ now \in 0..MaxPushDelay
    /\ \E task \in AcceptedTasks : \E push \in {"ok", "err"} :
        /\ tasks = MapInsert(EmptyMap, 0, task)
        /\ main = [NoMain EXCEPT !.cmd = "add", !.task = task, !.push = push,
                                 !.push_delay = now]
        /\ frame = [t \in Threads |->
                       IF t = MainThread
                       THEN [NoFrame EXCEPT !.op = "add", !.task = SomeTask(task),
                                            !.cont = "m_added"]
                       ELSE NoFrame]
    /\ next_id = 1
    /\ tasks_lock = NoThread
    /\ next_id_lock = NoThread
    /\ hist = [returned |-> <<0>>, removed |-> {}]
    /\ pc = [t \in Threads |-> IF t = MainThread THEN "m_spawn" ELSE "idle"]
    /\ act = [k \in Activities |-> NoAct]
    /\ notes = [k \in Activities |-> <<>>]

NextSpawn ==
    \/ MainSpawn
    \/ \E k \in Activities : ActStep(k)
    \/ \E k \in Activities : Cancel(k)
    \/ Tick

SpecSpawn == InitSpawn /\ [][NextSpawn]_vars

\* ------------------------- sync_from_google_calendar alone (SpecSync)
\* The function called with a hub on a fresh AppState, from the return of the
\* listing on, which gave at most max_results events.
InitSync ==
    /\ StoreInit
    /\ pc = [t \in Threads |-> IF t = MainThread THEN "m_sync_loop" ELSE "idle"]
    /\ now = 0
    /\ act = [k \in Activities |-> NoAct]
    /\ notes = [k \in Activities |-> <<>>]
    /\ \E events \in EventLists :
        /\ Len(events) <= MaxResults
        /\ main = [NoMain EXCEPT !.cmd = "sync", !.events = events, !.idx = 1]

NextSync ==
    \/ MainSyncLoop
    \/ AddLockTasks(MainThread)
    \/ AddLockNextId(MainThread)
    \/ AddBody(MainThread)

SpecSync == InitSync /\ [][NextSync]_vars

\* ------------------------------------------------------------------ claims
kinds(k) == {notes[k][i].kind : i \in 1..Len(notes[k])}

\* C1: the ids returned by add_task are strictly increasing in the order the
\* calls take effect (hence pairwise distinct), also when calls overlap, and an
\* id that was removed is never returned by a later add_task.
C1_AddIdsIncreasingNeverReused ==
    [][\A t \in Threads :
        (pc[t] = "add_body" /\ pc'[t] # "add_body") =>
            /\ \A i \in 1..Len(hist.returned) : hist.returned[i] < frame'[t].ret_id
            /\ frame'[t].ret_id \notin hist.removed
            /\ hist'.returned = Append(hist.returned, frame'[t].ret_id)]_vars

\* C1 witness: after an id was handed out and removed, an add_task call that
\* overlapped with another caller's add_task has returned a further id.
C1_Witness ==
    \E t \in Callers : \E u \in Callers \ {t} :
        /\ pc[t] = "caller_done" /\ frame[t].op = "add"
        /\ InAddTask(u)
        /\ hist.removed # {}
        /\ Len(hist.returned) >= 2
        /\ frame[t].ret_id = hist.returned[Len(hist.returned)]

\* C2: every stored task carries in its id field the key it is stored under,
\* and 0 is never the id of a stored task.
C2_StoredIdIsAssignedKey ==
    \A key \in DOMAIN tasks : tasks[key].id = key /\ key # 0

\* C3: remove_task of an id that is no key returns None and changes neither
\* the map nor next_id; of a present id it returns that task and deletes
\* exactly that entry.
C3_RemoveContract ==
    [][\A t \in Threads :
        (pc[t] = "remove_body" /\ pc'[t] # "remove_body") =>
            LET id == frame[t].id IN
            /\ next_id' = next_id
            /\ IF id \in DOMAIN tasks
               THEN /\ frame'[t].ret_task = SomeTask(tasks[id])
                    /\ DOMAIN tasks' = (DOMAIN tasks) \ {id}
                    /\ \A k \in DOMAIN tasks' : tasks'[k] = tasks[k]
               ELSE /\ frame'[t].ret_task = NoneTask
                    /\ tasks' = tasks]_vars

\* C3 witness: a remove_task has returned "not found" for an id that an
\* earlier remove_task deleted and returned, while another task stays stored.
C3_Witness ==
    \E t \in Callers :
        /\ pc[t] = "caller_done" /\ frame[t].op = "remove" /\ ~frame[t].ret_task.some
        /\ frame[t].id \in hist.removed
        /\ tasks # EmptyMap

\* C4: an Add whose start_time is not after the current time, or whose
\* end_time is not after start_time, returns with the map and next_id as they
\* were and with no reminder activity launched.
C4_RejectedAddLeavesStore ==
    (/\ main.cmd = "add"
     /\ \/ main.task.start_time <= main.valid_now
        \/ main.task.end_time <= main.task.start_time)
    => /\ pc[MainThread] = "returned"
       /\ tasks = EmptyMap
       /\ next_id = 0
       /\ hist.returned = <<>>
       /\ \A k \in Activities : pc[k] = "idle"

\* C4 witness: an Add whose start_time is the current instant has returned.
C4_Witness ==
    /\ main.cmd = "add"
    /\ pc[MainThread] = "returned"
    /\ main.task.start_time = main.valid_now
    /\ main.task.end_time > main.task.start_time

\* C5: every stored task has end_time > start_time, whichever path stored it.
C5_StoredEndAfterStart ==
    \A key \in DOMAIN tasks : tasks[key].end_time > tasks[key].start_time

\* the key the successor inserted by activity k is stored under
SuccessorKey(k) == frame[k].ret_id

HasInserted(k) == frame[k].op = "add" /\ pc[k] \in {"spawn_next", "finished"}

\* C6: the successor stored by a completed recurring task with frequency f has
\* start_time and end_time of the predecessor plus f, the same title and
\* details, is_recurring true and the same frequency_minutes, and is stored
\* under another id than its predecessor.
C6_SuccessorIsShiftedCopy ==
    \A k \in Activities :
        HasInserted(k) =>
            /\ SuccessorKey(k) \in DOMAIN tasks
            /\ SuccessorKey(k) # act[k].key
            /\ LET p == act[k].task
                   s == tasks[SuccessorKey(k)]
                   f == p.frequency_minutes.val IN
                /\ s.start_time = p.start_time + f
                /\ s.end_time = p.end_time + f
                /\ s.title = p.title
                /\ s.details = p.details
                /\ s.is_recurring
                /\ s.frequency_minutes = p.frequency_minutes

\* C6 witness: a task recurring every minute has completed and its successor,
\* inserted after the wait for its start, has an activity of its own.
C6_Witness ==
    \E k \in Activities :
        /\ HasInserted(k) /\ pc[k] = "finished"
        /\ act[k].task.frequency_minutes = SomeInt(1)
        /\ pc[k + 1] # "idle" /\ act[k + 1].parent = k
        /\ act[k + 1].task = tasks[SuccessorKey(k)]
        /\ now = act[k + 1].task.start_time

\* C7: every recurring task whose activity has run to its end has produced
\* exactly one successor, stored and with an activity of its own.
C7_RecurringCompletionSpawnsOne ==
    \A k \in Activities :
        (pc[k] = "finished" /\ act[k].task.is_recurring) =>
            /\ Cardinality(Successors(k)) = 1
            /\ HasInserted(k)

\* C8: an activity for a task that is not recurring never calls the store and
\* never launches an activity; the store keeps holding its task alone.
C8_NonRecurringNoSuccessor ==
    \A k \in Activities :
        (pc[k] # "idle" /\ ~act[k].task.is_recurring) =>
            /\ frame[k].op = "none"
            /\ Successors(k) = {}
            /\ DOMAIN tasks = {act[k].key}
            /\ next_id = act[k].key + 1

\* C8 witness: a non-recurring task that carries a frequency has completed.
C8_Witness ==
    /\ pc[1] = "finished"
    /\ ~act[1].task.is_recurring
    /\ act[1].task.frequency_minutes.some
    /\ "complete" \in kinds(1)

\* C9: when main has ended after an accepted Add for a task starting 10 and
\* ending 20 minutes ahead, the reminder activity of that task is not left
\* unlaunched or dropped short of its three notifications.
C9_RemindersNotCutShort ==
    (/\ main.cmd = "add"
     /\ main.task.start_time = main.valid_now + 10
     /\ main.task.end_time = main.valid_now + 20
     /\ pc[MainThread] \in {"returned", "panicked"}
     /\ pc[1] \in {"idle", "cancelled"})
    => {"starts_in_5", "ends_in_2", "complete"} \subseteq kinds(1)

\* C10: an activity launched while start_time - 5 is still ahead emits
\* "ends in 2 minutes" at the instant end_time - 2.
C10_EndReminderOnTime ==
    \A k \in Activities :
        (pc[k] \notin {"idle", "spawned"} /\ ReminderTimeStart(act[k].task) > act[k].now0) =>
            \A i \in 1..Len(notes[k]) :
                notes[k][i].kind = "ends_in_2" => notes[k][i].at = ReminderTimeEnd(act[k].task)

\* C11: "is complete" is never printed before the task's end_time.
C11_CompleteNotBeforeEnd ==
    \A k \in Activities :
        \A i \in 1..Len(notes[k]) :
            notes[k][i].kind = "complete" => notes[k][i].at >= act[k].task.end_time

\* C12: an activity that has run to its end beside a remover has printed
\* "is complete" and exactly the reminders its own copy of the task called for
\* at launch, and, when that copy is recurring with a frequency, has inserted
\* the successor built from the copy and launched the successor's activity,
\* whether or not its task is still stored.
C12_RemovalLeavesActivity ==
    \A k \in Activities :
        pc[k] = "finished" =>
            LET task == act[k].task IN
            /\ "complete" \in kinds(k)
            /\ ("starts_in_5" \in kinds(k)) = WaitsForStart(task, act[k].now0)
            /\ ("ends_in_2" \in kinds(k)) = WaitsForEnd(task, act[k].now0, act[k].now0)
            /\ (task.is_recurring /\ task.frequency_minutes.some) =>
                    /\ HasInserted(k)
                    /\ \E i \in 1..Len(hist.returned) : hist.returned[i] = SuccessorKey(k)
                    /\ Successors(k) = {k + 1}
                    /\ act[k + 1].task = NextTask(task)
                    /\ act[k + 1].key = SuccessorKey(k)

\* C12 witness: a recurring task was removed from the store while its activity
\* was under way; the activity has printed its three notifications, and its
\* successor is stored and has an activity of its own.
C12_Witness ==
    /\ pc[1] = "finished"
    /\ act[1].key \in hist.removed
    /\ act[1].key \notin DOMAIN tasks
    /\ kinds(1) = {"starts_in_5", "ends_in_2", "complete", "next_scheduled"}
    /\ pc[2] # "idle"
    /\ act[2].key \in DOMAIN tasks

\* C13: once the calendar push of an Add has ended, whatever its outcome, main
\* goes on to launch the reminder activity and the added task is in the store.
C13_PushNeverBlocksAdd ==
    (main.cmd = "add" /\ main.push # "none") =>
        /\ pc[MainThread] \in {"m_spawn", "returned"}
        /\ pc[MainThread] = "returned" => pc[1] # "idle"
        /\ frame[MainThread].ret_id \in DOMAIN tasks

\* C14: every task stored by the Add command has a frequency exactly when it
\* is recurring, and a frequency that is present is positive.
C14_FrequencyIffRecurring ==
    main.cmd = "add" =>
        \A key \in DOMAIN tasks :
            /\ tasks[key].frequency_minutes.some = tasks[key].is_recurring
            /\ tasks[key].frequency_minutes.some => tasks[key].frequency_minutes.val > 0

\* the place of a notification in the text of schedule_reminders
NoteRank(kind) ==
    CASE kind = "starts_in_5" -> 1
      [] kind = "ends_in_2" -> 2
      [] kind = "complete" -> 3
      [] kind = "next_scheduled" -> 4

\* positions of an activity after the line that prints "is complete"
PastComplete == {"recur", "sleep_next", "add_lock_tasks", "add_lock_next_id", "add_body",
                 "spawn_next", "finished"}

\* C15: the notifications of one activity come in the order "starts in 5
\* minutes", "ends in 2 minutes", "is complete", each at most once; an activity
\* past its completion line has printed "is complete", with or without a
\* reminder before it; and a successor is inserted or launched only by an
\* activity that has printed "is complete".
C15_NotificationOrder ==
    \A k \in Activities :
        /\ \A i \in 1..Len(notes[k]) : \A j \in 1..Len(notes[k]) :
                i < j => NoteRank(notes[k][i].kind) < NoteRank(notes[k][j].kind)
        /\ pc[k] \in PastComplete => "complete" \in kinds(k)
        /\ pc[k] \in {"spawned", "sleep_start", "check_end", "sleep_end", "complete"} =>
                "complete" \notin kinds(k)
        /\ frame[k].op = "add" => "complete" \in kinds(k)
        /\ Successors(k) # {} => "complete" \in kinds(k)

\* C15 witness: a first occurrence has printed both reminders before "is
\* complete" and launched its successor, and the successor, with neither wait
\* taken, has printed "is complete" alone.
C15_Witness ==
    /\ pc[1] = "finished"
    /\ [i \in 1..Len(notes[1]) |-> notes[1][i].kind]
           = <<"starts_in_5", "ends_in_2", "complete", "next_scheduled">>
    /\ act[2].parent = 1
    /\ pc[2] \in PastComplete
    /\ [i \in 1..Len(notes[2]) |-> notes[2][i].kind] = <<"complete">>

\* the instant activity k printed the notification of a kind at
NoteAt(k, kind) == notes[k][CHOOSE i \in 1..Len(notes[k]) : notes[k][i].kind = kind].at

\* C16: a successor is inserted no earlier than its start_time: at its
\* start_time when that was still ahead as the predecessor completed, and at
\* the instant of completion, with no wait and no failure, when it was past.
C16_SuccessorInsertedAtStart ==
    \A k \in Activities :
        (HasInserted(k) /\ "next_scheduled" \in kinds(k)) =>
            LET start_time == act[k].next_task.val.start_time
                completed == NoteAt(k, "complete")
                inserted == NoteAt(k, "next_scheduled") IN
            /\ inserted >= start_time
            /\ start_time >= completed => inserted = start_time
            /\ start_time < completed => inserted = completed

\* C16 witness: a task recurring every minute completed after its successor's
\* start_time, and the successor was inserted at that very instant.
C16_Witness ==
    \E k \in Activities :
        /\ HasInserted(k) /\ "next_scheduled" \in kinds(k)
        /\ act[k].task.frequency_minutes = SomeInt(1)
        /\ act[k].next_task.val.start_time < NoteAt(k, "complete")
        /\ NoteAt(k, "next_scheduled") = NoteAt(k, "complete")

\* C17: the context of an activity that launched its successor ends without
\* waiting for the successor, so that at every instant the clock moves on from
\* at most one context of a chain is alive.
C17_ContextsBounded ==
    [][now' # now => Cardinality(LiveContexts) <= 1]_vars

\* positions inside a store operation at which its caller holds a lock
HoldsLock == {"add_lock_next_id", "add_body", "remove_body", "list_body"}

\* C18: an activity in a timed wait holds neither the tasks lock nor the
\* next_id lock; a lock that is taken while an activity sleeps is held by
\* another thread, which is inside a store operation.
C18_NoLockAcrossSleep ==
    /\ \A k \in Activities :
            pc[k] \in Sleeping => tasks_lock # k /\ next_id_lock # k
    /\ \A t \in Threads :
            (tasks_lock = t \/ next_id_lock = t) => pc[t] \in HoldsLock

\* C18 witness: a successor, inserted by its predecessor through add_task, is
\* in a timed wait while the remover holds the tasks lock.
C18_Witness ==
    \E k \in Activities :
        /\ pc[k] \in Sleeping /\ now < act[k].wake
        /\ act[k].parent # 0
        /\ tasks_lock = Remover
        /\ pc[Remover] = "remove_body"

\* positions inside a store operation
InStoreOp == {"add_lock_tasks", "add_lock_next_id", "add_body",
              "remove_lock_tasks", "remove_body", "list_lock_tasks", "list_body"}

\* C19: under fair scheduling every add_task, list_tasks and remove_task call
\* returns, whatever the other callers do meanwhile.
C19_StoreCallsReturn ==
    \A t \in Callers : (pc[t] \in InStoreOp) ~> (pc[t] = "caller_done")

\* C19 witness: a caller of add_task waits for the tasks lock while another
\* caller of add_task holds both locks.
C19_Witness ==
    \E t \in Callers : \E u \in Callers \ {t} :
        /\ pc[t] = "add_lock_tasks"
        /\ pc[u] = "add_body"
        /\ tasks_lock = u /\ next_id_lock = u

\* C20: for an occurrence launched by the recurrence continuation,
\* start_time - 5 minutes is in the past from its launch on, so it never waits
\* for its first reminder and never prints "starts in 5 minutes".
C20_SuccessorNeverStartsIn5 ==
    \A k \in Activities :
        (pc[k] # "idle" /\ act[k].parent # 0) =>
            /\ ReminderTimeStart(act[k].task) < now
            /\ pc[k] # "sleep_start"
            /\ "starts_in_5" \notin kinds(k)

\* C20 witness: the first occurrence of a chain has printed "starts in 5
\* minutes"; its successor has run to its end without it and has launched the
\* third occurrence.
C20_Witness ==
    /\ "starts_in_5" \in kinds(1)
    /\ pc[2] = "finished" /\ act[2].parent = 1
    /\ "complete" \in kinds(2)
    /\ pc[3] # "idle" /\ act[3].parent = 2

====
